---- MODULE Spec2Model ----
(***************************************************************************)
(* Model of the combat simulator of src/combat_simulator/combat_simulator.py *)
(* : the dice engine (roll_dice), Unit.take_damage, Unit.deal_damage and    *)
(* the trial loop of combat_simulation.                                     *)
(*                                                                          *)
(* Objects live in `heap`, a function from object names to Unit records;   *)
(* a method call on an object rewrites heap[that object].  Dice are        *)
(* nondeterministic: every face 1..6 of every die is an outcome.           *)
(***************************************************************************)
EXTENDS Integers, Sequences, FiniteSets, TLC

VARIABLES
    heap,               \* object name -> Unit record (the objects that exist)
    call,               \* the method call made last: its arguments and the health before it
    ret,                \* what the last call returned (take_damage: wounds_through_save)
    err,                \* the exception the last call raised, "none" when it returned
    dice_log,           \* the roll_dice calls of the last method call: <<stage, num_dice>>
    damage_list,        \* the damage tuples deal_damage returned, still to be applied
    pc,                 \* position in combat_simulation
    sim,                \* combat_simulation's arguments and locals
    strikes             \* this trial's deal_damage calls: who, events returned, events applied

vars == <<heap, call, ret, err, dice_log, damage_list, pc, sim, strikes>>

----------------------------------------------------------------------------
(* Bounds of the model *)

MaxModels == 2          \* template model counts are 0..MaxModels
MaxWounds == 2          \* per-model health is 1..MaxWounds
MaxDamage == 2          \* take_damage is called directly with damage 0..MaxDamage
MaxIter == 2            \* iterations of combat_simulation are 1..MaxIter
ProbScale == 2          \* probabilities and order rolls are multiples of 1/ProbScale

(* Program constants *)

DieFaces == 6           \* rng.integers(1, 7, ...)
DefaultCrit == 6        \* critical_threshold: int = 6
NoWard == 7             \* ward_save: int = 7

----------------------------------------------------------------------------
(* Python integer arithmetic: // floors, % takes the sign of the divisor.  *)

PyFloorDiv(a, b) ==
    IF b > 0 THEN a \div b ELSE (0 - a) \div (0 - b)

PyMod(a, b) == a - b * PyFloorDiv(a, b)

Max(a, b) == IF a >= b THEN a ELSE b

Ind(b) == IF b THEN 1 ELSE 0

----------------------------------------------------------------------------
(* roll_dice *)

\* One die against the target, in the given direction.
Success(face, target, direction) ==
    CASE direction = "match" -> face >= target
      [] direction = "above" -> face > target
      [] direction = "below" -> face < target

\* Every <<hits, crits>> that num_dice dice can give: each die takes each face,
\* hits and crits are counted on the same dice.
RECURSIVE RollOutcomes(_, _, _, _)
RollOutcomes(num_dice, target, direction, critical_threshold) ==
    IF num_dice = 0
    THEN {<<0, 0>>}
    ELSE { <<r[1] + Ind(Success(face, target, direction)),
             r[2] + Ind(face >= critical_threshold)>> :
             r \in RollOutcomes(num_dice - 1, target, direction, critical_threshold),
             face \in 1..DieFaces }

\* rng.integers(1, 7, size=num_dice) raises ValueError on a negative size.
RollRaises(num_dice) == num_dice < 0

\* roll_dice(..., critical_count=False): the hit counts.
RollDice(num_dice, target, direction) ==
    { r[1] : r \in RollOutcomes(num_dice, target, direction, DefaultCrit) }

----------------------------------------------------------------------------
(* Weapon and Unit *)

Weapon(name, attacks, to_hit, to_wound, rend, damage, companion, crit_threshold, crit_mortals, crit_explode) ==
    [name |-> name, attacks |-> attacks, to_hit |-> to_hit, to_wound |-> to_wound,
     rend |-> rend, damage |-> damage, companion |-> companion,
     crit_threshold |-> crit_threshold, crit_mortals |-> crit_mortals,
     crit_explode |-> crit_explode]

\* Unit(...) followed by __post_init__: nothing is validated, total_wounds is
\* models * wounds_per_model, unit_alive keeps its default.
Unit(models, wounds_per_model, save, ward_save, ethereal, beacon_of_protection, weapons, has_leader) ==
    [models |-> models, wounds_per_model |-> wounds_per_model, save |-> save,
     ward_save |-> ward_save, ethereal |-> ethereal,
     beacon_of_protection |-> beacon_of_protection, weapons |-> weapons,
     has_leader |-> has_leader, unit_alive |-> TRUE,
     total_wounds |-> models * wounds_per_model]

----------------------------------------------------------------------------
(* Unit.take_damage *)

NoRolls == <<>>

\* SaveStage with the `if mortal` branch lost: mortal damage is rolled against
\* the save like normal damage.
SaveStageNoMortalBranch(u, damage, rend, mortal) ==
    IF u.ethereal
    THEN { <<h, << <<"save", damage, u.save>> >> >> :
             h \in RollDice(damage, u.save, "below") }
    ELSE { <<h, << <<"save", damage, u.save + rend>> >> >> :
             h \in RollDice(damage, u.save + rend, "below") }

\* Lines 66-71: the save stage.  A set of <<wounds_through_save, rolls made>>.
SaveStage(u, damage, rend, mortal) ==
    IF mortal
    THEN {<<damage, NoRolls>>}
    ELSE IF u.ethereal
    THEN { <<h, << <<"save", damage, u.save>> >> >> :
             h \in RollDice(damage, u.save, "below") }
    ELSE { <<h, << <<"save", damage, u.save + rend>> >> >> :
             h \in RollDice(damage, u.save + rend, "below") }

\* Lines 73-74: the ward stage, on what the save stage let through.
WardStage(u, s, ward_ignore) ==
    IF u.ward_save # 0 /\ ~ward_ignore
    THEN { <<h, Append(s[2], <<"ward", s[1], u.ward_save>>)>> :
             h \in RollDice(s[1], u.ward_save, "below") }
    ELSE {s}

\* Lines 76-77: beacon_of_protection.
Beacon(u, wounds_through_save) ==
    IF u.beacon_of_protection THEN Max(0, wounds_through_save - 1)
    ELSE wounds_through_save

\* Lines 66-77: every <<wounds_through_save, rolls made>> of one call.
TakeDamageRolls(u, damage, rend, mortal, ward_ignore) ==
    UNION { { <<Beacon(u, w[1]), w[2]>> : w \in WardStage(u, s, ward_ignore) } :
            s \in SaveStage(u, damage, rend, mortal) }

\* Line 79.
Wounded(u, wounds_through_save) == u.total_wounds - wounds_through_save

\* Lines 82-84.
ModelsLeft(total_wounds, wounds_per_model) ==
    LET full_models == PyFloorDiv(total_wounds, wounds_per_model)
        has_partial_model ==
            IF PyMod(total_wounds, wounds_per_model) > 0 THEN 1 ELSE 0
    IN  Max(0, full_models + has_partial_model)

\* StillAlive with `<` for `<=`.
StillAliveStrict(unit_alive, models) == IF models < 0 THEN FALSE ELSE unit_alive

\* Lines 86-87.
StillAlive(unit_alive, models) == IF models <= 0 THEN FALSE ELSE unit_alive

\* Lines 79-87 on a unit whose wounds_per_model is not 0.
Damaged(u, wounds_through_save) ==
    LET tw == Wounded(u, wounds_through_save)
        m == ModelsLeft(tw, u.wounds_per_model)
    IN  [u EXCEPT !.total_wounds = tw, !.models = m,
                  !.unit_alive = StillAlive(u.unit_alive, m)]

CallRecord(op, self, damage, rend, mortal, ward_ignore, before, n) ==
    [op |-> op, self |-> self, damage |-> damage, rend |-> rend, mortal |-> mortal,
     ward_ignore |-> ward_ignore, before |-> before, n |-> n]

NoCall == CallRecord("none", "none", 0, 0, FALSE, FALSE, 0, 0)

\* heap[o].take_damage(damage, rend, mortal, ward_ignore).  Line 79 runs before
\* the division of line 82, so a ZeroDivisionError leaves total_wounds lowered
\* and models as it was.
TakeDamageCall(o, damage, rend, mortal, ward_ignore) ==
    \E r \in TakeDamageRolls(heap[o], damage, rend, mortal, ward_ignore) :
        /\ call' = CallRecord("take_damage", o, damage, rend, mortal, ward_ignore,
                              heap[o].total_wounds, call.n + 1)
        /\ dice_log' = r[2]
        /\ IF heap[o].wounds_per_model = 0
           THEN /\ heap' = [heap EXCEPT ![o].total_wounds = Wounded(heap[o], r[1])]
                /\ err' = "ZeroDivisionError"
                /\ ret' = 0
           ELSE /\ heap' = [heap EXCEPT ![o] = Damaged(heap[o], r[1])]
                /\ err' = "none"
                /\ ret' = r[1]

----------------------------------------------------------------------------
(* Unit.deal_damage *)

\* HitDice with the companion test lost: every weapon gets the leader's attack.
HitDiceNoCompanionTest(u, weapon) ==
    weapon.attacks * u.models + (IF u.has_leader THEN 1 ELSE 0)

\* Lines 97-99.
HitDice(u, weapon) ==
    weapon.attacks * u.models
        + (IF u.has_leader /\ ~weapon.companion THEN 1 ELSE 0)

\* Lines 102-112: attacks_landed after the crit mode is applied.
AttacksLanded(weapon, hits, crits) ==
    IF weapon.crit_explode THEN hits + crits
    ELSE IF weapon.crit_mortals THEN hits - crits
    ELSE hits

\* Lines 105-109: the mortal tuple of a crit_mortals weapon.
MortalEvents(weapon, crits) ==
    IF ~weapon.crit_explode /\ weapon.crit_mortals /\ crits > 0
    THEN << <<crits * weapon.damage, 0, "mortal">> >>
    ELSE <<>>

\* Lines 118-119.
NormalEvents(weapon, wounds_landed) ==
    IF wounds_landed > 0
    THEN << <<wounds_landed * weapon.damage, weapon.rend, "normal">> >>
    ELSE <<>>

\* Lines 115-119 for one hit roll: the wound roll and the weapon's tuples.
WoundSequence(weapon, hit_entry, hits, crits, wound_modifier) ==
    LET attacks_landed == AttacksLanded(weapon, hits, crits)
        target == weapon.to_wound - wound_modifier
        log == <<hit_entry, <<"wound", attacks_landed, target>>>>
    IN  IF RollRaises(attacks_landed)
        THEN {[events |-> <<>>, log |-> log, raised |-> TRUE]}
        ELSE { [events |-> MortalEvents(weapon, crits) \o NormalEvents(weapon, w),
                log |-> log, raised |-> FALSE] :
               w \in RollDice(attacks_landed, target, "match") }

\* Lines 97-119: one pass of the loop body.
WeaponResults(u, weapon, hit_modifier, wound_modifier) ==
    LET weapon_attacks == HitDice(u, weapon)
        target == weapon.to_hit - hit_modifier
        hit_entry == <<"hit", weapon_attacks, target>>
    IN  IF RollRaises(weapon_attacks)
        THEN {[events |-> <<>>, log |-> <<hit_entry>>, raised |-> TRUE]}
        ELSE UNION { WoundSequence(weapon, hit_entry, r[1], r[2], wound_modifier) :
                     r \in RollOutcomes(weapon_attacks, target, "match",
                                        weapon.crit_threshold) }

\* Lines 94-121: the loop over self.weapons from the given weapon on.  A raise
\* ends the call: no list is returned and the later weapons are not rolled.
RECURSIVE DealFrom(_, _, _, _)
DealFrom(u, weapons, hit_modifier, wound_modifier) ==
    IF weapons = <<>>
    THEN {[damage_list |-> <<>>, log |-> <<>>, raised |-> FALSE]}
    ELSE UNION {
           IF r.raised
           THEN {[damage_list |-> <<>>, log |-> r.log, raised |-> TRUE]}
           ELSE { [damage_list |-> r.events \o t.damage_list,
                   log |-> r.log \o t.log,
                   raised |-> t.raised] :
                  t \in DealFrom(u, Tail(weapons), hit_modifier, wound_modifier) } :
           r \in WeaponResults(u, Head(weapons), hit_modifier, wound_modifier) }

DealDamage(u, hit_modifier, wound_modifier) ==
    DealFrom(u, u.weapons, hit_modifier, wound_modifier)

----------------------------------------------------------------------------
(* Inputs: weapons and units, scaled down from the example block (lines    *)
(* 231-259) so that every dice pool stays small.                           *)

Blade  == Weapon("Blade", 2, 3, 3, 1, 1, FALSE, DefaultCrit, FALSE, FALSE)
Hooves == Weapon("Hooves", 1, 5, 3, 0, 1, TRUE, DefaultCrit, FALSE, FALSE)
Lance  == Weapon("Dawn Lance", 1, 3, 4, 1, 2, FALSE, DefaultCrit, TRUE, FALSE)
Impact == Weapon("Impact", 1, 3, 1, 0, 1, FALSE, 3, TRUE, FALSE)
Flail  == Weapon("Flail", 1, 4, 4, 0, 1, FALSE, 5, FALSE, TRUE)

WeaponLists == {<<Blade, Hooves>>, <<Lance>>, <<Impact>>, <<Flail>>}

Rends == {0, 2}
Wards == {0, 5, NoWard}
Saves == {2, 4}
Modifiers == {<<0, 0>>, <<0 - 1, 0>>, <<0, 1>>}

\* Units as section 3 of the design describes them: a model count >= 0 and a
\* per-model health >= 1.
UnitConfigs ==
    { Unit(m, w, s, ward, eth, bea, wl, lead) :
        m \in 0..MaxModels, w \in 1..MaxWounds, s \in Saves, ward \in Wards,
        eth \in BOOLEAN, bea \in BOOLEAN, wl \in WeaponLists, lead \in BOOLEAN }

----------------------------------------------------------------------------
(* Direct method calls on one unit *)

NoSim == [iterations |-> 0]

InitUnit ==
    /\ heap \in { [o \in {"unit"} |-> c] : c \in UnitConfigs }
    /\ call = NoCall
    /\ ret = 0
    /\ err = "none"
    /\ dice_log = <<>>
    /\ damage_list = <<>>
    /\ pc = "unit"
    /\ sim = NoSim
    /\ strikes = <<>>

\* unit.take_damage(damage, rend, mortal, ward_ignore), called by a caller that
\* holds no result.  Health is unbounded below: the model stops calling once it
\* is under -MaxDamage.
TakeDamage ==
    /\ pc = "unit"
    /\ call = NoCall
    /\ heap["unit"].total_wounds >= 0 - MaxDamage
    /\ \E damage \in 0..MaxDamage, rend \in Rends,
          mortal \in BOOLEAN, ward_ignore \in BOOLEAN :
          TakeDamageCall("unit", damage, rend, mortal, ward_ignore)
    /\ UNCHANGED <<damage_list, pc, sim, strikes>>

\* unit.deal_damage(hit_modifier, wound_modifier)
DealDamageCall ==
    /\ pc = "unit"
    /\ call = NoCall
    /\ \E mod \in Modifiers :
       \E r \in DealDamage(heap["unit"], mod[1], mod[2]) :
          /\ call' = CallRecord("deal_damage", "unit", 0, 0, FALSE, FALSE,
                                heap["unit"].total_wounds, 1)
          /\ dice_log' = r.log
          /\ damage_list' = IF r.raised THEN <<>> ELSE r.damage_list
          /\ err' = IF r.raised THEN "ValueError" ELSE "none"
          /\ ret' = 0
    /\ UNCHANGED <<heap, pc, sim, strikes>>

\* The caller drops the result of the call and is ready for the next one.
Discard ==
    /\ pc = "unit"
    /\ call # NoCall
    /\ call' = NoCall
    /\ ret' = 0
    /\ err' = "none"
    /\ dice_log' = <<>>
    /\ damage_list' = <<>>
    /\ UNCHANGED <<heap, pc, sim, strikes>>

NextUnit == TakeDamage \/ DealDamageCall \/ Discard

SpecUnit == InitUnit /\ [][NextUnit]_vars

----------------------------------------------------------------------------
(* combat_simulation *)

Knights == Unit(2, 1, 4, NoWard, FALSE, FALSE, <<Blade, Hooves>>, TRUE)
Riders  == Unit(1, 2, 4, 5, FALSE, TRUE, <<Lance>>, FALSE)
Wardens == Unit(2, 1, 4, NoWard, TRUE, FALSE, <<Impact>>, TRUE)

Templates == {Knights, Riders, Wardens}

\* <<attacker_hit_modifier, attacker_wound_modifier,
\*   defender_hit_modifier, defender_wound_modifier>>
SimModifiers == {<<0, 0, 0, 0>>, <<0 - 1, 0, 0, 1>>}

\* Lines 152-174: a new Unit from the template's constructor arguments;
\* unit_alive is not passed and takes its default.
CopyUnit(t) ==
    Unit(t.models, t.wounds_per_model, t.save, t.ward_save, t.ethereal,
         t.beacon_of_protection, t.weapons, t.has_leader)

\* Inverted with `<=` for `<`.
InvertedOrEqual(order_roll, order_inversion_probability) ==
    order_roll <= order_inversion_probability

\* Line 179: order_roll and the probability are both in units of 1/ProbScale.
Inverted(order_roll, order_inversion_probability) ==
    order_roll < order_inversion_probability

\* np.random.random() is in [0.0, 1.0).
OrderRolls == 0..(ProbScale - 1)

FirstStriker  == IF sim.inverted THEN "def_copy" ELSE "att_copy"
SecondStriker == IF sim.inverted THEN "att_copy" ELSE "def_copy"

\* Receiver naming the templates instead of the copies.
ReceiverTemplate(o) == IF o = "att_copy" THEN "defender" ELSE "attacker"

\* The unit the damage of striker o is applied to (lines 186, 195, 204, 213).
Receiver(o) == IF o = "att_copy" THEN "def_copy" ELSE "att_copy"

TemplateOf(o) == IF o = "att_copy" THEN "attacker" ELSE "defender"

HitModifier(o) ==
    IF o = "att_copy" THEN sim.modifiers[1] ELSE sim.modifiers[3]

WoundModifier(o) ==
    IF o = "att_copy" THEN sim.modifiers[2] ELSE sim.modifiers[4]

SimArgs(p, n, mods) ==
    [order_inversion_probability |-> p, iterations |-> n, modifiers |-> mods,
     i |-> 0, inverted_fights |-> 0, inverted |-> FALSE]

InitWith(units) ==
    /\ heap \in { [o \in {"attacker", "defender"} |->
                     IF o = "attacker" THEN a ELSE d] : a \in units, d \in units }
    /\ sim \in { SimArgs(p, n, mods) :
                   p \in 0..ProbScale, n \in 1..MaxIter, mods \in SimModifiers }
    /\ call = NoCall
    /\ ret = 0
    /\ err = "none"
    /\ dice_log = <<>>
    /\ damage_list = <<>>
    /\ pc = "loop"
    /\ strikes = <<>>

Init == InitWith(Templates)

\* Lines 150-180: the head of one iteration.
StartTrial ==
    /\ pc = "loop"
    /\ sim.i < sim.iterations
    /\ \E order_roll \in OrderRolls :
         LET inv == Inverted(order_roll, sim.order_inversion_probability) IN
         sim' = [sim EXCEPT !.inverted = inv,
                            !.inverted_fights = IF inv THEN @ + 1 ELSE @]
    /\ heap' = [o \in DOMAIN heap \cup {"att_copy", "def_copy"} |->
                  IF o = "att_copy" THEN CopyUnit(heap["attacker"])
                  ELSE IF o = "def_copy" THEN CopyUnit(heap["defender"])
                  ELSE heap[o]]
    /\ pc' = "first_strike"
    /\ UNCHANGED <<call, ret, err, dice_log, damage_list, strikes>>

\* CanStrike with the liveness test lost.
CanStrikeAlways(u) == TRUE

\* `if att_copy.unit_alive:` / `if def_copy.unit_alive:`
CanStrike(u) == u.unit_alive

\* `if o.unit_alive: damage_list = o.deal_damage(...)`, with the loop over an
\* empty list falling through.
Strike(o, apply_pc, next_pc) ==
    IF CanStrike(heap[o])
    THEN \E r \in DealDamage(heap[o], HitModifier(o), WoundModifier(o)) :
           /\ call' = CallRecord("deal_damage", o, 0, 0, FALSE, FALSE,
                                 heap[o].total_wounds, call.n)
           /\ dice_log' = r.log
           /\ ret' = 0
           /\ IF r.raised
              THEN /\ err' = "ValueError"
                   /\ pc' = "raised"
                   /\ UNCHANGED <<damage_list, strikes>>
              ELSE /\ err' = "none"
                   /\ damage_list' = r.damage_list
                   /\ strikes' = Append(strikes,
                         [by |-> o, emitted |-> Len(r.damage_list), applied |-> 0])
                   /\ pc' = IF r.damage_list = <<>> THEN next_pc ELSE apply_pc
           /\ UNCHANGED <<heap, sim>>
    ELSE /\ pc' = next_pc
         /\ UNCHANGED <<heap, call, ret, err, dice_log, damage_list, sim, strikes>>

\* One pass of `for damage, rend, damage_type in damage_list`, applied to the
\* unit struck by o.
Apply(o, apply_pc, next_pc) ==
    LET event == Head(damage_list) IN
    /\ damage_list # <<>>
    /\ IF event[3] = "mortal"
       THEN TakeDamageCall(Receiver(o), event[1], 0, TRUE, FALSE)
       ELSE TakeDamageCall(Receiver(o), event[1], event[2], FALSE, FALSE)
    /\ damage_list' = Tail(damage_list)
    /\ strikes' = [strikes EXCEPT ![Len(strikes)].applied = @ + 1]
    /\ pc' = IF heap[Receiver(o)].wounds_per_model = 0 THEN "raised"
             ELSE IF Tail(damage_list) = <<>> THEN next_pc ELSE apply_pc
    /\ UNCHANGED sim

\* Lines 182-183 / 200-201.
FirstStrike ==
    /\ pc = "first_strike"
    /\ Strike(FirstStriker, "first_apply", "second_strike")

\* Lines 184-188 / 202-206.
FirstApply ==
    /\ pc = "first_apply"
    /\ Apply(FirstStriker, "first_apply", "second_strike")

\* Lines 191-192 / 209-210.
SecondStrike ==
    /\ pc = "second_strike"
    /\ Strike(SecondStriker, "second_apply", "record")

\* Lines 193-197 / 211-215.
SecondApply ==
    /\ pc = "second_apply"
    /\ Apply(SecondStriker, "second_apply", "record")

\* Lines 218-219 and the end of the loop body.  The two samples appended are
\* the copies' total_wounds in this state; the lists are only read by the means
\* of lines 222-223 and are not kept.  The trial's locals are dead from here on.
Record ==
    /\ pc = "record"
    /\ sim' = [sim EXCEPT !.i = @ + 1]
    /\ pc' = "loop"
    /\ call' = NoCall
    /\ ret' = 0
    /\ dice_log' = <<>>
    /\ damage_list' = <<>>
    /\ strikes' = <<>>
    /\ UNCHANGED <<heap, err>>

\* Lines 222-225: the loop is over and the function returns.
Return ==
    /\ pc = "loop"
    /\ sim.i = sim.iterations
    /\ pc' = "done"
    /\ UNCHANGED <<heap, call, ret, err, dice_log, damage_list, sim, strikes>>

Next ==
    \/ StartTrial
    \/ FirstStrike
    \/ FirstApply
    \/ SecondStrike
    \/ SecondApply
    \/ Record
    \/ Return

Spec == Init /\ [][Next]_vars

----------------------------------------------------------------------------
(* combat_simulation on templates built from any integers: Unit(...) and   *)
(* __post_init__ accept a negative model count and a per-model health <= 0. *)

RawTemplates ==
    { Unit(m, w, 4, NoWard, FALSE, FALSE, <<Blade>>, TRUE) :
        m \in (0 - 1)..1, w \in (0 - 1)..1 }

ValidConfig(u) == u.wounds_per_model > 0 /\ u.models >= 0

InitRaw == InitWith(RawTemplates)

SpecRaw == InitRaw /\ [][Next]_vars

----------------------------------------------------------------------------
(* Claims *)

TookDamage == call.op = "take_damage" /\ err = "none"

Struck == heap[call.self]

\* C1: after every take_damage call the unit's remaining health (total_wounds)
\* is >= 0.
C1_HealthNeverNegative ==
    TookDamage => Struck.total_wounds >= 0

\* C2 as stated: a mortal take_damage call with damage N returns exactly N and
\* lowers the health by exactly N, whatever the save and ward thresholds.
C2_MortalReturnsAll ==
    (TookDamage /\ call.mortal) =>
        /\ ret = call.damage
        /\ Struck.total_wounds = call.before - call.damage

WardRolled == Struck.ward_save # 0 /\ ~call.ward_ignore

\* C2 as amended: a mortal take_damage call with damage N makes no save roll
\* and is not affected by rend; it returns between 0 and N and lowers the
\* health by exactly what it returns.  The ward roll is still made unless the
\* ward is ignored or the ward threshold is 0, and beacon_of_protection still
\* takes 1 off: the call returns exactly N when no ward roll is made or the
\* ward threshold is above 6, and the unit has no beacon_of_protection (with
\* the beacon, max(0, N - 1)).
C2_MortalSkipsSaveOnly ==
    (TookDamage /\ call.mortal) =>
        /\ \A k \in 1..Len(dice_log) : dice_log[k][1] # "save"
        /\ (Len(dice_log) = 1) <=> WardRolled
        /\ 0 <= ret /\ ret <= call.damage
        /\ Struck.total_wounds = call.before - ret
        /\ (~WardRolled \/ Struck.ward_save > DieFaces) =>
              ret = (IF Struck.beacon_of_protection
                     THEN Max(0, call.damage - 1) ELSE call.damage)

\* C2 witness: a mortal call on a unit with a ward of 5 that is not ignored,
\* rolled with rend, where the ward stopped part of the damage.
C2_Witness ==
    /\ TookDamage /\ call.mortal /\ ~call.ward_ignore
    /\ call.damage = MaxDamage /\ call.rend > 0
    /\ Struck.ward_save = 5 /\ Struck.save = 2 /\ ~Struck.beacon_of_protection
    /\ ret = 1

\* C3: after every take_damage call the alive flag is false exactly when the
\* model count is 0, and a flag that is false stays false.
C3_AliveIffModels ==
    /\ [](TookDamage => (~Struck.unit_alive <=> Struck.models = 0))
    /\ [][\A o \in DOMAIN heap :
            ~heap[o].unit_alive => (o \in DOMAIN heap' /\ ~heap'[o].unit_alive)]_vars

\* C3 witness: a unit already out of health and not alive takes more damage.
C3_Witness ==
    /\ TookDamage /\ call.before < 0 /\ ret > 0
    /\ ~Struck.unit_alive /\ Struck.models = 0

\* C4: when combat_simulation returns, inverted_fights is the trial count if the
\* inversion probability is 1, 0 if it is 0, and always within 0..trial count.
C4_InversionCount ==
    /\ 0 <= sim.inverted_fights /\ sim.inverted_fights <= sim.iterations
    /\ pc = "done" =>
         /\ sim.i = sim.iterations
         /\ sim.order_inversion_probability = ProbScale =>
                sim.inverted_fights = sim.iterations
         /\ sim.order_inversion_probability = 0 => sim.inverted_fights = 0

\* C4 witness: a run of the most trials with probability 1 has returned.
C4_Witness ==
    /\ pc = "done" /\ sim.iterations = MaxIter
    /\ sim.order_inversion_probability = ProbScale
    /\ sim.inverted_fights = MaxIter

\* C5: a unit with a negative model count or a per-model health <= 0 is
\* rejected at construction, so no take_damage or deal_damage call of a trial
\* fails because of one.
C5_NoFailureMidTrial ==
    pc = "raised" =>
        (ValidConfig(heap["attacker"]) /\ ValidConfig(heap["defender"]))

FullHealth(o) ==
    /\ heap[o].models = heap[TemplateOf(o)].models
    /\ heap[o].total_wounds =
          heap[TemplateOf(o)].models * heap[TemplateOf(o)].wounds_per_model
    /\ heap[o].unit_alive

\* C6: the attacker and defender templates never change, and every trial
\* starts with both copies alive and at the template's full health.
C6_TemplatesUntouched ==
    /\ [][/\ heap'["attacker"] = heap["attacker"]
          /\ heap'["defender"] = heap["defender"]]_vars
    /\ [](pc = "first_strike" => (FullHealth("att_copy") /\ FullHealth("def_copy")))

\* C6 witness: a later trial starts, with templates still as constructed.
C6_Witness ==
    /\ pc = "first_strike" /\ sim.i >= 1
    /\ FullHealth("att_copy") /\ FullHealth("def_copy")
    /\ heap["attacker"] = CopyUnit(heap["attacker"])
    /\ heap["defender"] = CopyUnit(heap["defender"])
    /\ heap["defender"].models > 0 /\ heap["attacker"].models > 0

\* C7: in a trial each unit attacks at most once, the first striker first; the
\* second striker attacks only after all of the first striker's damage is
\* applied and only if still alive; a second striker that is not alive deals
\* no damage, and the first striker ends the trial at full health.
C7_SingleExchange ==
    /\ Len(strikes) <= 2
    /\ Len(strikes) >= 1 => strikes[1].by = FirstStriker
    /\ pc \in {"second_strike", "second_apply", "record"} =>
         \A k \in 1..Len(strikes) :
            strikes[k].by = FirstStriker => strikes[k].applied = strikes[k].emitted
    /\ Len(strikes) = 2 =>
         /\ strikes[2].by = SecondStriker
         /\ heap[SecondStriker].unit_alive
    /\ (pc = "record" /\ ~heap[SecondStriker].unit_alive) =>
         /\ \A k \in 1..Len(strikes) : strikes[k].by # SecondStriker
         /\ FullHealth(FirstStriker)

\* C7 witness: an inverted trial ends with the attacker, the second striker,
\* killed by the defender's strike, and the defender at full health.
C7_Witness ==
    /\ pc = "record" /\ sim.inverted
    /\ ~heap["att_copy"].unit_alive /\ heap["att_copy"].models = 0
    /\ Len(strikes) = 1 /\ strikes[1].by = "def_copy" /\ strikes[1].applied >= 1
    /\ FullHealth("def_copy")

CeilDiv(a, b) == 0 - ((0 - a) \div b)

\* C8: after every take_damage call the model count is the ceiling of
\* remaining health / per-model health, and is never negative.
C8_ModelsAreCeiling ==
    TookDamage =>
        /\ Struck.models >= 0
        /\ Struck.models = CeilDiv(Struck.total_wounds, Struck.wounds_per_model)

ExpectedHitDice(u, weapon) ==
    IF u.has_leader /\ ~weapon.companion
    THEN weapon.attacks * u.models + 1
    ELSE weapon.attacks * u.models

\* C9: deal_damage rolls the hit dice weapon by weapon in list order, each roll
\* with attacks * current model count dice, plus 1 exactly when the unit has a
\* leader and the weapon is not a companion weapon.
C9_HitDiceCount ==
    call.op = "deal_damage" =>
        /\ \A k \in 1..Len(Struck.weapons) :
              2 * k - 1 <= Len(dice_log) =>
                 /\ dice_log[2 * k - 1][1] = "hit"
                 /\ dice_log[2 * k - 1][2] = ExpectedHitDice(Struck, Struck.weapons[k])
        /\ err = "none" => Len(dice_log) = 2 * Len(Struck.weapons)

\* C9 witness: the second striker, having lost a model to the first strike,
\* attacks with fewer dice than its template would.
C9_Witness ==
    /\ call.op = "deal_damage" /\ call.self = SecondStriker /\ err = "none"
    /\ Struck.models > 0
    /\ Struck.models < heap[TemplateOf(call.self)].models
    /\ dice_log[1][2] = ExpectedHitDice(Struck, Struck.weapons[1])
    /\ dice_log[1][2] <
          ExpectedHitDice(heap[TemplateOf(call.self)], Struck.weapons[1])

\* C10: for a crit_mortals weapon the pool of the wound roll is between 0 and
\* the number of hit dice, and deal_damage never asks for a negative number of
\* dice.
C10_WoundPoolInRange ==
    call.op = "deal_damage" =>
        /\ \A k \in 1..Len(dice_log) : dice_log[k][2] >= 0
        /\ \A k \in 1..Len(Struck.weapons) :
              (Struck.weapons[k].crit_mortals /\ ~Struck.weapons[k].crit_explode
                  /\ 2 * k <= Len(dice_log)) =>
                 /\ dice_log[2 * k][1] = "wound"
                 /\ dice_log[2 * k][2] <= dice_log[2 * k - 1][2]

====
